---------------------------- MODULE Spec2Model ----------------------------
(***************************************************************************)
(* Meta Mega Codex runtime: the relay orchestrator (codex_relay.py), the   *)
(* executor (codex_executor.py), the run logger (codex_logger.py), the     *)
(* redaction filter (codex_utils.py) and the digest (codex_digest_report). *)
(*                                                                         *)
(* Structured values (YAML / JSON) are tagged records of one uniform       *)
(* shape: t is the tag, s the text (of a string, or the decimal text of a  *)
(* number), n the number, l the items of a list, m the dict of a mapping.  *)
(* A Python dict is a function from string keys to values.  Stack          *)
(* documents and run directories are named by natural numbers, whose order *)
(* stands for the lexicographic order of their names; a path is the        *)
(* sequence of its components.  Each program is one invocation at a time   *)
(* (spec section 5): the relay runs step by step through stack discovery   *)
(* and include resolution, the logger and the digest run in one step.      *)
(***************************************************************************)
EXTENDS Integers, Sequences, FiniteSets, TLC

VARIABLES
    docs,       \* stacks directory: path -> [include, body] of every file
    policies,   \* config/policies.yaml as a dict
    reqs,       \* command lines the relay may be started with
    vault,      \* PreservationVault/runs: directory -> (file name -> content)
    clock,      \* datetime.now(), one tick per invocation
    args,       \* command line of the running relay invocation
    cands,      \* _discover_stack: the sorted candidates
    ci,         \* _discover_stack: index of the candidate being tried
    found,      \* _discover_stack's result: [stack, path]
    stack,      \* active frames of _load_stack_with_includes, outermost first
    call,       \* arguments of the call being entered: [path, ancestry]
    ret,        \* value returned by the frame that just finished
    gates,      \* steps of main() the relay invocation got through
    out,        \* what the last invocation printed on stdout
    err,        \* the exception that ended the last invocation, or NoErr
    pc          \* position of the relay invocation

vars == <<docs, policies, reqs, vault, clock, args, cands, ci, found,
          stack, call, ret, gates, out, err, pc>>

----------------------------------------------------------------------------
(* Values *)

NullV == [t |-> "null", s |-> "", n |-> 0, l |-> <<>>, m |-> <<>>]
Sc(x) == [t |-> "scalar", s |-> x, n |-> 0, l |-> <<>>, m |-> <<>>]
Num(k) == [t |-> "int", s |-> ToString(k), n |-> k, l |-> <<>>, m |-> <<>>]
Li(q) == [t |-> "list", s |-> "", n |-> 0, l |-> q, m |-> <<>>]
Mp(f) == [t |-> "map", s |-> "", n |-> 0, l |-> <<>>, m |-> f]
\* what json.loads cannot decode
BadJson == [t |-> "invalid", s |-> "", n |-> 0, l |-> <<>>, m |-> <<>>]

EmptyDict == <<>>

IsDict(v) == v.t = "map"

\* bool(v)
Truthy(v) ==
    CASE v.t = "null" -> FALSE
      [] v.t = "scalar" -> v.s # ""
      [] v.t = "int" -> v.n # 0
      [] v.t = "list" -> v.l # <<>>
      [] v.t = "map" -> DOMAIN v.m # {}
      [] OTHER -> TRUE

\* str(v)
Str(v) ==
    CASE v.t = "scalar" -> v.s
      [] v.t = "int" -> v.s
      [] v.t = "null" -> "None"
      [] OTHER -> ToString(v)

\* d.get(key)
Get(d, key) == IF key \in DOMAIN d THEN d[key] ELSE NullV

\* d.get(key, {}) of a dict of dicts
Section(d, key) == IF key \in DOMAIN d THEN d[key].m ELSE EmptyDict

Put(d, key, v) == [k \in DOMAIN d \cup {key} |-> IF k = key THEN v ELSE d[k]]

Range(q) == {q[i] : i \in 1..Len(q)}

Min(a, b) == IF a < b THEN a ELSE b
Max(a, b) == IF a < b THEN b ELSE a

NoErr == [kind |-> "none", msg |-> "", trace |-> <<>>]
Raise(kind, msg, trace) == [kind |-> kind, msg |-> msg, trace |-> trace]

NoOut == [op |-> "none"]
NoArgs == [persona |-> "", role |-> "", stack_file |-> 0,
           payload |-> [widths |-> <<>>, json |-> BadJson],
           run_dir |-> <<>>]
NoFound == [stack |-> EmptyDict, path |-> 0]
NoCall == [path |-> 0, ancestry |-> <<>>]

----------------------------------------------------------------------------
(* codex_relay.py: configuration resolution *)

RECURSIVE _deep_merge(_, _)
_deep_merge(base, incoming) ==
    [key \in DOMAIN base \cup DOMAIN incoming |->
        IF key \in DOMAIN incoming
        THEN IF key \in DOMAIN base /\ IsDict(base[key]) /\ IsDict(incoming[key])
             THEN Mp(_deep_merge(base[key].m, incoming[key].m))
             ELSE incoming[key]
        ELSE base[key]]

\* a test against the including document alone
OnChainParentOnly(path, ancestry) ==
    ancestry # <<>> /\ path = ancestry[Len(ancestry)]

\* line 43: the membership test on the ancestry passed to this call
OnChain(path, ancestry) == path \in Range(ancestry)

\* line 50: the ancestry handed to an include, a fresh list
ChildAncestry(ancestry, path) == Append(ancestry, path)

\* the body merged first, so that the includes override it
MergeBodyFirst(merged, body) == _deep_merge(body, merged)

\* line 52: the document's own body is merged last
MergeBody(merged, body) == _deep_merge(merged, body)

\* line 50: an include's result is merged over the earlier includes
MergeInclude(merged, included) == _deep_merge(merged, included)

Frame(path, ancestry) ==
    [path |-> path, ancestry |-> ancestry, i |-> 1, merged |-> EmptyDict]

Top == stack[Len(stack)]

\* lines 42-47: entry of _load_stack_with_includes(path, ancestry)
LoadEnter ==
    /\ pc = "call"
    /\ IF OnChain(call.path, call.ancestry)
       THEN /\ err' = Raise("ValueError", "Circular include detected",
                            Append(call.ancestry, call.path))
            /\ pc' = "failed"
            /\ UNCHANGED stack
       ELSE IF call.path \notin DOMAIN docs
       THEN /\ err' = Raise("FileNotFoundError", "include", <<call.path>>)
            /\ pc' = "failed"
            /\ UNCHANGED stack
       ELSE /\ stack' = Append(stack, Frame(call.path, call.ancestry))
            /\ pc' = "loop"
            /\ UNCHANGED err
    /\ UNCHANGED <<docs, policies, reqs, vault, clock, args, cands, ci, found,
                   call, ret, gates, out>>

\* lines 48-52: one turn of the include loop, or the final merge with the body
LoadLoop ==
    /\ pc = "loop"
    /\ LET f == Top
           data == docs[f.path]
       IN IF f.i <= Len(data.include)
          THEN /\ call' = [path |-> data.include[f.i],
                           ancestry |-> ChildAncestry(f.ancestry, f.path)]
               /\ pc' = "call"
               /\ UNCHANGED <<stack, ret>>
          ELSE /\ ret' = MergeBody(f.merged, data.body)
               /\ stack' = SubSeq(stack, 1, Len(stack) - 1)
               /\ pc' = "return"
               /\ UNCHANGED call
    /\ UNCHANGED <<docs, policies, reqs, vault, clock, args, cands, ci, found,
                   gates, out, err>>

\* line 50: back in the including frame
LoadReturn ==
    /\ pc = "return"
    /\ stack # <<>>
    /\ stack' = [stack EXCEPT ![Len(stack)] =
                    [Top EXCEPT !.merged = MergeInclude(Top.merged, ret),
                                !.i = Top.i + 1]]
    /\ pc' = "loop"
    /\ UNCHANGED <<docs, policies, reqs, vault, clock, args, cands, ci, found,
                   call, ret, gates, out, err>>

NextLoad == LoadEnter \/ LoadLoop \/ LoadReturn

----------------------------------------------------------------------------
(* codex_executor.py *)

\* "if not value: return []": every falsy value taken for no list
CoerceFalsyEmpty(value) ==
    IF ~Truthy(value) THEN <<>>
    ELSE IF value.t = "list" THEN [i \in 1..Len(value.l) |-> Str(value.l[i])]
    ELSE <<Str(value)>>

\* lines 34-39
_coerce_list(value) ==
    IF value.t = "null" THEN <<>>
    ELSE IF value.t = "list" THEN [i \in 1..Len(value.l) |-> Str(value.l[i])]
    ELSE <<Str(value)>>

\* " — ".join(parts) and f"{prefix}{x}": the text is kept as its parts
Join(parts) == Sc(ToString(parts))

DefaultActions(pol) ==
    IF "default_actions" \in DOMAIN pol
    THEN [i \in 1..Len(pol["default_actions"].l) |-> pol["default_actions"].l[i]]
    ELSE <<>>

\* CodexExecutor._generate_advisory, with Advisory.as_dict
_generate_advisory(payload, pol) ==
    LET summary_prefix == IF "summary_prefix" \in DOMAIN pol
                          THEN pol["summary_prefix"].s ELSE "Advisor Insight"
        objectives == _coerce_list(Get(payload, "objectives"))
        blockers == _coerce_list(Get(payload, "blockers"))
        context == IF Truthy(Get(payload, "context"))
                   THEN Str(Get(payload, "context"))
                   ELSE "No additional context supplied."
        summary_parts ==
            <<summary_prefix, context>> \o
            (IF objectives # <<>>
             THEN <<ToString(<<"Core objective: ", objectives[1]>>)>> ELSE <<>>)
        acts1 == DefaultActions(pol) \o
                 (IF blockers # <<>>
                  THEN <<Join(<<"Resolve blocker: ", blockers[1]>>)>> ELSE <<>>)
        acts2 == acts1 \o
                 (IF objectives # <<>>
                  THEN <<Join(<<"Advance objective: ", objectives[1]>>)>> ELSE <<>>)
        recommended_actions ==
            IF acts2 = <<>> THEN <<Sc("Document a concrete next step.")>> ELSE acts2
        risk_level == IF Truthy(Get(payload, "risk_level"))
                      THEN Get(payload, "risk_level")
                      ELSE IF blockers = <<>> THEN Sc("low") ELSE Sc("medium")
        confidence == IF blockers # <<>> THEN Sc("balanced") ELSE Sc("high")
    IN [summary |-> Join(summary_parts),
        recommended_actions |-> Li(recommended_actions),
        confidence |-> confidence,
        risk_level |-> risk_level]

\* CodexExecutor.__init__ followed by CodexExecutor.run(payload)
CodexExecutor(stack_config, pol, payload, now) ==
    LET agents == Get(stack_config, "agents")
        agent == agents.l[1].m
    IN IF DOMAIN stack_config = {}
       THEN [err |-> Raise("ValueError", "Stack configuration cannot be empty.", <<>>),
             result |-> EmptyDict]
       ELSE IF ~Truthy(agents)
       THEN [err |-> Raise("ValueError", "Stack must declare at least one agent.", <<>>),
             result |-> EmptyDict]
       ELSE [err |-> NoErr,
             result |->
               [meta |-> Mp([agent_name |-> Get(agent, "name"),
                             model |-> Get(agent, "model"),
                             generated_at |-> Num(now)]),
                routing |-> IF "routing" \in DOMAIN stack_config
                            THEN stack_config["routing"] ELSE Mp(EmptyDict),
                cfms_invariants |-> IF "cfms_invariants" \in DOMAIN stack_config
                                    THEN stack_config["cfms_invariants"]
                                    ELSE Mp(EmptyDict),
                payload |-> Mp(payload),
                advice |-> Mp(_generate_advisory(payload, pol))]]

----------------------------------------------------------------------------
(* codex_relay.py: the relay invocation *)

MaxClock == 3

\* "outputs" as a directory name: letters sort after the digits of run names
Outputs == 99

PIPELINE == Li(<<Sc("relay"), Sc("executor"), Sc("logger"), Sc("evaluation"),
                 Sc("digest")>>)

Quiescent == pc \in {"idle", "failed"}

\* orders in which the directory may be listed
Perms(S) ==
    {q \in [1..Cardinality(S) -> S] :
        \A i, j \in 1..Cardinality(S) : i # j => q[i] # q[j]}

\* sorted() on stack paths
RECURSIVE Sorted(_)
Sorted(q) ==
    IF q = <<>> THEN <<>>
    ELSE LET rest == Sorted(Tail(q))
             k == Cardinality({i \in 1..Len(rest) : rest[i] < Head(q)})
         IN SubSeq(rest, 1, k) \o <<Head(q)>> \o SubSeq(rest, k + 1, Len(rest))

\* the candidates as the directory lists them
CandidatesAsListed(listing) == listing

\* line 68: the candidates in the order the loop takes them
Candidates(listing) == Sorted(listing)

\* lines 70-71
Routing(stack_config) ==
    IF Truthy(Get(stack_config, "routing"))
    THEN Get(stack_config, "routing") ELSE Mp(EmptyDict)

RoutingMatches(stack_config, persona, role) ==
    /\ Get(Routing(stack_config).m, "persona") = Sc(persona)
    /\ Get(Routing(stack_config).m, "role") = Sc(role)

RECURSIVE SumSeq(_)
SumSeq(q) == IF q = <<>> THEN 0 ELSE Head(q) + SumSeq(Tail(q))

\* line 94: len(payload_str.encode("utf-8")), from each character's width
EncodedLen(payload_str) == SumSeq(payload_str.widths)

\* lines 93-100
_parse_payload(payload_str, max_bytes) ==
    IF Truthy(max_bytes) /\ EncodedLen(payload_str) > max_bytes.n
    THEN [err |-> Raise("ValueError", "Payload exceeds relay policy limit", <<>>),
          value |-> EmptyDict, reached |-> <<"encode">>]
    ELSE LET parsed == IF payload_str.widths = <<>>
                       THEN Mp(EmptyDict) ELSE payload_str.json
         IN IF parsed = BadJson
            THEN [err |-> Raise("JSONDecodeError", "json.loads", <<>>),
                  value |-> EmptyDict, reached |-> <<"encode", "json.loads">>]
            ELSE IF ~IsDict(parsed)
            THEN [err |-> Raise("TypeError", "Payload must be a JSON object.", <<>>),
                  value |-> EmptyDict, reached |-> <<"encode", "json.loads">>]
            ELSE [err |-> NoErr, value |-> parsed.m,
                  reached |-> <<"encode", "json.loads">>]

\* mkdir(parents=True, exist_ok=True)
Mkdirs(v, d) ==
    [x \in DOMAIN v \cup {SubSeq(d, 1, k) : k \in 0..Len(d)} |->
        IF x \in DOMAIN v THEN v[x] ELSE EmptyDict]

\* open(dir / name, "w") and json.dump(content)
WriteFile(v, d, name, content) == [v EXCEPT ![d] = Put(v[d], name, content)]

\* lines 84-90
_normalize_run_dir(v, run_dir) == Mkdirs(v, Append(run_dir, Outputs))

\* lines 114-123 and 58-68: a relay is started; main() gets as far as the
\* first document to load
RelayMain(a) ==
    /\ Quiescent
    /\ clock < MaxClock
    /\ a \in reqs
    /\ args' = a
    /\ clock' = clock + 1
    /\ stack' = <<>>
    /\ ret' = EmptyDict
    /\ found' = NoFound
    /\ gates' = <<>>
    /\ out' = NoOut
    /\ IF a.stack_file # 0
       THEN IF a.stack_file \notin DOMAIN docs
            THEN /\ err' = Raise("FileNotFoundError", "Stack file does not exist.",
                                 <<a.stack_file>>)
                 /\ pc' = "failed"
                 /\ UNCHANGED <<call, cands, ci>>
            ELSE /\ call' = [path |-> a.stack_file, ancestry |-> <<>>]
                 /\ cands' = <<>>
                 /\ ci' = 0
                 /\ err' = NoErr
                 /\ pc' = "call"
       ELSE \E listing \in Perms(DOMAIN docs) :
                 /\ cands' = Candidates(listing)
                 /\ ci' = 1
                 /\ err' = NoErr
                 /\ pc' = "scan"
                 /\ UNCHANGED call
    /\ UNCHANGED <<docs, policies, reqs, vault>>

\* lines 68-69 and 73: the next candidate is loaded, or none is left
DiscoverNext ==
    /\ pc = "scan"
    /\ IF ci <= Len(cands)
       THEN /\ call' = [path |-> cands[ci], ancestry |-> <<>>]
            /\ pc' = "call"
            /\ UNCHANGED err
       ELSE /\ err' = Raise("LookupError", "No stack found", <<>>)
            /\ pc' = "failed"
            /\ UNCHANGED call
    /\ UNCHANGED <<docs, policies, reqs, vault, clock, args, cands, ci, found,
                   stack, ret, gates, out>>

\* lines 66 and 70-72: the loaded stack is returned, or the scan goes on
DiscoverCheck ==
    /\ pc = "return"
    /\ stack = <<>>
    /\ IF args.stack_file # 0
       THEN /\ found' = [stack |-> ret, path |-> args.stack_file]
            /\ pc' = "relay"
            /\ UNCHANGED <<ci, err>>
       ELSE IF ~IsDict(Routing(ret))
       THEN /\ err' = Raise("AttributeError", "routing.get", <<cands[ci]>>)
            /\ pc' = "failed"
            /\ UNCHANGED <<ci, found>>
       ELSE IF RoutingMatches(ret, args.persona, args.role)
       THEN /\ found' = [stack |-> ret, path |-> cands[ci]]
            /\ pc' = "relay"
            /\ UNCHANGED <<ci, err>>
       ELSE /\ ci' = ci + 1
            /\ pc' = "scan"
            /\ UNCHANGED <<found, err>>
    /\ UNCHANGED <<docs, policies, reqs, vault, clock, args, cands,
                   stack, call, ret, gates, out>>

\* lines 139-159: the report main() prints
RelayReport(agent_name, payload, now) ==
    [timestamp |-> Num(now),
     stack_file |-> Num(found.path),
     persona |-> Sc(args.persona),
     role |-> Sc(args.role),
     pipeline |-> PIPELINE,
     cfms_invariants |-> IF "cfms_invariants" \in DOMAIN found.stack
                         THEN found.stack["cfms_invariants"] ELSE Mp(EmptyDict),
     meta |-> IF "meta" \in DOMAIN found.stack
              THEN found.stack["meta"] ELSE Mp(EmptyDict),
     payload |-> Mp(payload),
     outputs |-> Mp([executor |->
                       Sc(ToString(<<args.run_dir, "outputs", agent_name>>))]),
     policies_applied |-> Mp([relay |-> Get(policies, "relay"),
                              executor |-> Get(policies, "executor")])]

\* _normalize_run_dir is called on entry, before the payload is parsed
RelayRestMkdirFirst ==
    /\ pc = "relay"
    /\ LET parsed == _parse_payload(args.payload,
                         Get(Section(policies, "relay"), "max_payload_bytes"))
           ex == CodexExecutor(found.stack, Section(policies, "executor"),
                               parsed.value, clock)
           name == Get(ex.result.meta.m, "agent_name")
           agent_name == IF Truthy(name) THEN Str(name) ELSE "agent"
           run_dir == _normalize_run_dir(vault, args.run_dir)
       IN IF parsed.err # NoErr
          THEN /\ err' = parsed.err
               /\ gates' = parsed.reached
               /\ pc' = "failed"
               /\ vault' = run_dir
               /\ UNCHANGED out
          ELSE IF ex.err # NoErr
          THEN /\ err' = ex.err
               /\ gates' = parsed.reached \o <<"isinstance", "executor">>
               /\ pc' = "failed"
               /\ vault' = run_dir
               /\ UNCHANGED out
          ELSE /\ vault' = WriteFile(run_dir, Append(args.run_dir, Outputs),
                                     agent_name, ex.result)
               /\ out' = [op |-> "relay", run_dir |-> args.run_dir,
                          report |-> RelayReport(agent_name, parsed.value, clock)]
               /\ gates' = parsed.reached \o
                           <<"isinstance", "executor", "mkdir", "write", "report">>
               /\ pc' = "idle"
               /\ UNCHANGED err
    /\ UNCHANGED <<docs, policies, reqs, clock, args, cands, ci, found,
                   stack, call, ret>>

\* lines 125-162: payload gates, the executor, the output artifact, the report
RelayRest ==
    /\ pc = "relay"
    /\ LET parsed == _parse_payload(args.payload,
                         Get(Section(policies, "relay"), "max_payload_bytes"))
           ex == CodexExecutor(found.stack, Section(policies, "executor"),
                               parsed.value, clock)
           name == Get(ex.result.meta.m, "agent_name")
           agent_name == IF Truthy(name) THEN Str(name) ELSE "agent"
           run_dir == _normalize_run_dir(vault, args.run_dir)
       IN IF parsed.err # NoErr
          THEN /\ err' = parsed.err
               /\ gates' = parsed.reached
               /\ pc' = "failed"
               /\ UNCHANGED <<vault, out>>
          ELSE IF ex.err # NoErr
          THEN /\ err' = ex.err
               /\ gates' = parsed.reached \o <<"isinstance", "executor">>
               /\ pc' = "failed"
               /\ UNCHANGED <<vault, out>>
          ELSE /\ vault' = WriteFile(run_dir, Append(args.run_dir, Outputs),
                                     agent_name, ex.result)
               /\ out' = [op |-> "relay", run_dir |-> args.run_dir,
                          report |-> RelayReport(agent_name, parsed.value, clock)]
               /\ gates' = parsed.reached \o
                           <<"isinstance", "executor", "mkdir", "write", "report">>
               /\ pc' = "idle"
               /\ UNCHANGED err
    /\ UNCHANGED <<docs, policies, reqs, clock, args, cands, ci, found,
                   stack, call, ret>>

NextRelay ==
    \/ \E a \in reqs : RelayMain(a)
    \/ DiscoverNext
    \/ DiscoverCheck
    \/ RelayRest
    \/ NextLoad

----------------------------------------------------------------------------
(* codex_utils.py: redaction *)

Marker == Sc("***REDACTED***")

\* line 22: the string forms of the configured keys
Sensitive(keys_to_redact) ==
    IF Truthy(keys_to_redact)
    THEN {Str(keys_to_redact.l[i]) : i \in 1..Len(keys_to_redact.l)}
    ELSE {}

RECURSIVE redact(_, _)

\* no branch for lists: a list is returned as it is
RedactMapsOnly(obj, keys_to_redact) ==
    IF obj.t = "map"
    THEN Mp([key \in DOMAIN obj.m |->
                IF key \in Sensitive(keys_to_redact)
                THEN Marker
                ELSE redact(obj.m[key], keys_to_redact)])
    ELSE obj

\* lines 21-36
redact(obj, keys_to_redact) ==
    IF obj.t = "map"
    THEN Mp([key \in DOMAIN obj.m |->
                IF key \in Sensitive(keys_to_redact)
                THEN Marker
                ELSE redact(obj.m[key], keys_to_redact)])
    ELSE IF obj.t = "list"
    THEN Li([i \in 1..Len(obj.l) |-> redact(obj.l[i], keys_to_redact)])
    ELSE obj

----------------------------------------------------------------------------
(* codex_logger.py *)

RunDirs == {<<1>>, <<2>>, <<3, 1>>}

\* a partially written file: json.load fails on it
Corrupt == [corrupt |-> Sc("partial")]

HasFile(v, d, name) == d \in DOMAIN v /\ name \in DOMAIN v[d]

\* lines 20-38; the revision is left out when git fails
_collect_environment(git_ok) ==
    LET env == [platform |-> Sc("platform"), python_version |-> Sc("python"),
                hostname |-> Sc("host")]
    IN IF git_ok THEN Put(env, "git_sha", Sc("sha")) ELSE env

\* lines 67-78
LogRecord(relay_data, run_dir, redact_keys, now) ==
    [timestamp |-> Num(now),
     run_dir |-> Sc(ToString(run_dir)),
     persona |-> Get(relay_data, "persona"),
     role |-> Get(relay_data, "role"),
     pipeline |-> Get(relay_data, "pipeline"),
     payload |-> redact(IF "payload" \in DOMAIN relay_data
                        THEN relay_data["payload"] ELSE Mp(EmptyDict),
                        redact_keys),
     outputs |-> Get(relay_data, "outputs")]

\* logger.json is opened for writing before relay.json is looked for
LoggerOpensLogFirst(run_dir, record_env, git_ok) ==
    /\ Quiescent
    /\ clock < MaxClock
    /\ clock' = clock + 1
    /\ IF ~HasFile(vault, run_dir, "relay.json")
       THEN /\ err' = Raise("FileNotFoundError", "Relay output not found.", run_dir)
            /\ out' = NoOut
            /\ vault' = IF run_dir \in DOMAIN vault
                        THEN WriteFile(vault, run_dir, "logger.json", EmptyDict)
                        ELSE vault
       ELSE IF vault[run_dir]["relay.json"] = Corrupt
       THEN /\ err' = Raise("JSONDecodeError", "json.load", run_dir)
            /\ out' = NoOut
            /\ UNCHANGED vault
       ELSE LET relay_data == vault[run_dir]["relay.json"]
                redact_keys == IF "redact_keys" \in DOMAIN Section(policies, "logger")
                               THEN Section(policies, "logger")["redact_keys"]
                               ELSE Li(<<>>)
                base == LogRecord(relay_data, run_dir, redact_keys, clock')
                log_record == IF record_env
                              THEN Put(base, "environment",
                                       Mp(_collect_environment(git_ok)))
                              ELSE base
            IN /\ vault' = WriteFile(vault, run_dir, "logger.json", log_record)
               /\ out' = [op |-> "logger", logger_file |-> run_dir]
               /\ err' = NoErr
    /\ UNCHANGED <<docs, policies, reqs, args, cands, ci, found,
                   stack, call, ret, gates, pc>>

\* lines 48-86: main() of the logger on run_dir
Logger(run_dir, record_env, git_ok) ==
    /\ Quiescent
    /\ clock < MaxClock
    /\ clock' = clock + 1
    /\ IF ~HasFile(vault, run_dir, "relay.json")
       THEN /\ err' = Raise("FileNotFoundError", "Relay output not found.", run_dir)
            /\ out' = NoOut
            /\ UNCHANGED vault
       ELSE IF vault[run_dir]["relay.json"] = Corrupt
       THEN /\ err' = Raise("JSONDecodeError", "json.load", run_dir)
            /\ out' = NoOut
            /\ UNCHANGED vault
       ELSE LET relay_data == vault[run_dir]["relay.json"]
                redact_keys == IF "redact_keys" \in DOMAIN Section(policies, "logger")
                               THEN Section(policies, "logger")["redact_keys"]
                               ELSE Li(<<>>)
                base == LogRecord(relay_data, run_dir, redact_keys, clock')
                log_record == IF record_env
                              THEN Put(base, "environment",
                                       Mp(_collect_environment(git_ok)))
                              ELSE base
            IN /\ vault' = WriteFile(vault, run_dir, "logger.json", log_record)
               /\ out' = [op |-> "logger", logger_file |-> run_dir]
               /\ err' = NoErr
    /\ UNCHANGED <<docs, policies, reqs, args, cands, ci, found,
                   stack, call, ret, gates, pc>>

NextLogger ==
    \E run_dir \in RunDirs, record_env \in BOOLEAN, git_ok \in BOOLEAN :
        /\ (git_ok => record_env)
        /\ Logger(run_dir, record_env, git_ok)

\* The relay prints its report; the pipeline that runs it stores that output
\* as <run_dir>/relay.json, the report artifact the logger requires.
SaveReport ==
    /\ Quiescent
    /\ out.op = "relay"
    /\ vault' = WriteFile(vault, out.run_dir, "relay.json", out.report)
    /\ UNCHANGED <<docs, policies, reqs, clock, args, cands, ci, found,
                   stack, call, ret, gates, out, err, pc>>

----------------------------------------------------------------------------
(* codex_digest_report.py *)

\* no exists() test: a missing file fails to open
LoadJsonStrict(v, d, name) ==
    IF ~HasFile(v, d, name) \/ v[d][name] = Corrupt
    THEN [ok |-> FALSE, data |-> EmptyDict]
    ELSE [ok |-> TRUE, data |-> v[d][name]]

\* lines 17-21
_load_json(v, d, name) ==
    IF ~HasFile(v, d, name) THEN [ok |-> TRUE, data |-> EmptyDict]
    ELSE IF v[d][name] = Corrupt THEN [ok |-> FALSE, data |-> EmptyDict]
    ELSE [ok |-> TRUE, data |-> v[d][name]]

\* lines 29-37: the run directories the scan collects under runs/
ScanRuns(v) ==
    LET top == {d \in DOMAIN v : Len(d) = 1}
        direct == {d \in top : HasFile(v, d, "relay.json")}
    IN direct \cup {d \in DOMAIN v : Len(d) = 2 /\ SubSeq(d, 1, 1) \in top \ direct}

\* Path.__lt__: component by component, a prefix first
PathLess(a, b) ==
    \/ \E i \in 1..Min(Len(a), Len(b)) :
          /\ a[i] < b[i]
          /\ \A j \in 1..(i - 1) : a[j] = b[j]
    \/ /\ Len(a) < Len(b)
       /\ \A j \in 1..Len(a) : a[j] = b[j]

PathMax(S) == CHOOSE x \in S : \A y \in S : y = x \/ PathLess(y, x)

PathMin(S) == CHOOSE x \in S : \A y \in S : y = x \/ PathLess(x, y)

\* sorted(run_dirs), oldest first
RECURSIVE SortedForward(_)
SortedForward(S) ==
    IF S = {} THEN <<>>
    ELSE <<PathMin(S)>> \o SortedForward(S \ {PathMin(S)})

\* line 39: sorted(run_dirs, reverse=True)
RECURSIVE SortedReverse(_)
SortedReverse(S) ==
    IF S = {} THEN <<>>
    ELSE <<PathMax(S)>> \o SortedReverse(S \ {PathMax(S)})

\* lines 40-41: run_dirs[:limit]
Truncate(q, limit) ==
    IF limit.t = "null" THEN q
    ELSE IF limit.n >= 0 THEN SubSeq(q, 1, Min(limit.n, Len(q)))
    ELSE SubSeq(q, 1, Max(0, Len(q) + limit.n))

\* lines 48-60: the record of one run directory
DigestRecord(run_path, relay, evaluation, logger) ==
    [run_dir |-> run_path,
     timestamp |-> Get(relay, "timestamp"),
     persona |-> Get(relay, "persona"),
     role |-> Get(relay, "role"),
     pipeline |-> Get(relay, "pipeline"),
     outputs |-> IF "outputs" \in DOMAIN relay THEN relay["outputs"] ELSE Mp(EmptyDict),
     evaluation_schema |-> Get(evaluation, "schema_version"),
     evaluation_criteria |-> IF "criteria" \in DOMAIN evaluation
                             THEN Len(evaluation["criteria"].l) ELSE 0,
     logger_present |-> DOMAIN logger # {}]

\* lines 24-61
_collect_runs(v, limit) ==
    IF <<>> \notin DOMAIN v THEN [ok |-> TRUE, runs |-> <<>>]
    ELSE LET run_dirs == Truncate(SortedReverse(ScanRuns(v)), limit)
             loaded == [i \in 1..Len(run_dirs) |->
                          [relay |-> _load_json(v, run_dirs[i], "relay.json"),
                           evaluation |-> _load_json(v, run_dirs[i], "evaluation.json"),
                           logger |-> _load_json(v, run_dirs[i], "logger.json")]]
         IN IF \E i \in 1..Len(run_dirs) :
                  ~(loaded[i].relay.ok /\ loaded[i].evaluation.ok /\ loaded[i].logger.ok)
            THEN [ok |-> FALSE, runs |-> <<>>]
            ELSE [ok |-> TRUE,
                  runs |-> [i \in 1..Len(run_dirs) |->
                              DigestRecord(run_dirs[i], loaded[i].relay.data,
                                           loaded[i].evaluation.data,
                                           loaded[i].logger.data)]]

Limits == {NullV, Num(-1), Num(0), Num(1), Num(2), Num(3)}

\* lines 72-103: main() of the digest; the digest goes to stdout or, with
\* --output, to a file outside runs/
Digest(arg_limit, to_file) ==
    /\ Quiescent
    /\ clock < MaxClock
    /\ clock' = clock + 1
    /\ LET limit == IF arg_limit.t # "null" THEN arg_limit
                    ELSE Get(Section(policies, "digest"), "max_runs")
           got == _collect_runs(vault, limit)
           digest == [generated_at |-> clock', run_count |-> Len(got.runs),
                      runs |-> got.runs]
       IN IF got.ok
          THEN /\ out' = [op |-> "digest", limit |-> limit, to_file |-> to_file,
                          digest |-> IF Truthy(Get(Section(policies, "digest"),
                                                   "include_history"))
                                     THEN Put(digest, "history", limit)
                                     ELSE digest]
               /\ err' = NoErr
          ELSE /\ out' = NoOut
               /\ err' = Raise("JSONDecodeError", "json.load", <<>>)
    /\ UNCHANGED <<docs, policies, reqs, vault, args, cands, ci, found,
                   stack, call, ret, gates, pc>>

NextDigest == \E arg_limit \in Limits, to_file \in BOOLEAN : Digest(arg_limit, to_file)

Next == NextRelay \/ SaveReport \/ NextLogger \/ NextDigest

----------------------------------------------------------------------------
(* Bounds and input universes *)

MaxInc == 2
MaxChars == 2

Paths == {1, 2, 3, 4}
StackFiles == {1, 2, 3}

DocTag == <<"v1", "v2", "v3", "v4">>

\* sequences over T of length at most n
RECURSIVE SeqsUpTo(_, _)
SeqsUpTo(T, n) ==
    IF n = 0 THEN {<<>>}
    ELSE LET shorter == SeqsUpTo(T, n - 1)
         IN shorter \cup {Append(q, x) : q \in shorter, x \in T}

\* the strictly increasing ones: one include list per set of includes
IncreasingSeqs(T, n) ==
    {q \in SeqsUpTo(T, n) : \A i \in 1..(Len(q) - 1) : q[i] < q[i + 1]}

\* partial functions from K to V, as dicts
Dicts(K, V) == UNION {[D -> V] : D \in SUBSET K}

Policies0 ==
    [relay |-> Mp([max_payload_bytes |-> Num(64)]),
     executor |-> Mp([summary_prefix |-> Sc("Advisor Insight"),
                      default_actions |-> Li(<<Sc("review backlog")>>)]),
     logger |-> Mp([redact_keys |-> Li(<<Sc("token")>>)]),
     digest |-> Mp([max_runs |-> Num(2)])]

Agents0 == Li(<<Mp([name |-> Sc("nova"), model |-> Sc("m1")])>>)

RoutingOf(persona, role) == Mp([persona |-> Sc(persona), role |-> Sc(role)])

Payload0 == [widths |-> <<1, 1>>, json |-> Mp(EmptyDict)]

Request0 == [persona |-> "p", role |-> "r", stack_file |-> 0,
             payload |-> Payload0, run_dir |-> <<1>>]

EmptyVault == [d \in {<<>>} |-> EmptyDict]

\* Include graphs over Paths; file 4 may be missing while still referenced.
GraphDocs ==
    {[p \in F |-> [include |-> inc[p], body |-> [k |-> Sc(DocTag[p])]]] :
        F \in {Paths, Paths \ {4}},
        inc \in [Paths -> IncreasingSeqs(Paths, MaxInc)]}

\* What a document may say under key "k": nothing, a scalar, a list, or a
\* mapping of "x" and "y"; every value names the document it comes from.
BodiesOf(p) ==
    LET own == Sc(DocTag[p])
    IN {EmptyDict, [k |-> own], [k |-> Li(<<own>>)]} \cup
       {[k |-> Mp(f)] : f \in Dicts({"x", "y"}, {own})}

\* Acyclic include graphs over StackFiles (a document includes later ones
\* only, in any order and with repeats), with every choice of bodies.
MergeDocs ==
    {[p \in StackFiles |-> [include |-> inc[p], body |-> body[p]]] :
        inc \in {f \in [StackFiles -> SeqsUpTo(StackFiles, MaxInc)] :
                    \A p \in StackFiles : \A i \in 1..Len(f[p]) : f[p][i] > p},
        body \in {f \in [StackFiles -> UNION {BodiesOf(p) : p \in StackFiles}] :
                    \A p \in StackFiles : f[p] \in BodiesOf(p)}}

\* a single stack "nova" for persona p, role r, built from an included base
Docs0 ==
    [p \in {1, 2} |->
        IF p = 1
        THEN [include |-> <<2>>,
              body |-> [routing |-> RoutingOf("p", "r"),
                        meta |-> Mp([src |-> Sc(DocTag[1])])]]
        ELSE [include |-> <<>>,
              body |-> [agents |-> Agents0,
                        cfms_invariants |-> Mp([audit |-> Sc("on")])]]]

\* Stacks directories for discovery: every file declares the agent, may
\* route to the request or elsewhere, and may include one file (itself, a
\* sibling or the missing file 4).
DiscoverBodies(p) ==
    LET base == [agents |-> Agents0, meta |-> Mp([src |-> Sc(DocTag[p])])]
    IN {base, Put(base, "routing", RoutingOf("p", "r")),
        Put(base, "routing", RoutingOf("q", "r"))}

DiscoverDocs ==
    {[p \in StackFiles |-> [include |-> inc[p], body |-> body[p]]] :
        inc \in [StackFiles -> SeqsUpTo(Paths, 1)],
        body \in {f \in [StackFiles -> UNION {DiscoverBodies(p) : p \in StackFiles}] :
                    \A p \in StackFiles : f[p] \in DiscoverBodies(p)}}

\* Decoded payloads: objects over risk_level, blockers and objectives, and
\* what is no object or no JSON at all.
PayloadObjects ==
    {[k \in D |-> f[k]] :
        D \in SUBSET {"risk_level", "blockers", "objectives"},
        f \in [risk_level : {NullV, Sc(""), Sc("high"), Num(0)},
               blockers : {NullV, Li(<<>>), Li(<<Sc("b1")>>), Sc(""), Sc("b1"),
                           Li(<<Sc(""), Sc("b2")>>)},
               objectives : {Li(<<Sc("ship v1")>>)}]}

JsonMenu == {Mp(o) : o \in PayloadObjects} \cup {Li(<<>>), Sc("s"), BadJson}

PayloadStrings ==
    [widths : SeqsUpTo({1, 3}, MaxChars), json : JsonMenu]

Ceilings == {NullV, Num(-1), Num(0), Num(1), Num(2), Num(4)}

AgentChoices ==
    {Agents0, Li(<<>>), Li(<<Mp([model |-> Sc("m1")])>>)}

PoliciesWith(section, key, v) == Put(Policies0, section, Mp(Put(EmptyDict, key, v)))

Idle(d, pol, rq, v, c) ==
    /\ docs = d
    /\ policies = pol
    /\ reqs = rq
    /\ vault = v
    /\ clock = c
    /\ args = NoArgs
    /\ cands = <<>>
    /\ ci = 0
    /\ found = NoFound
    /\ stack = <<>>
    /\ ret = EmptyDict
    /\ gates = <<>>
    /\ out = NoOut
    /\ err = NoErr

\* _load_stack_with_includes(1) on its own
InitResolve ==
    /\ \E d \in GraphDocs : Idle(d, Policies0, {}, EmptyVault, 0)
    /\ call = [path |-> 1, ancestry |-> <<>>]
    /\ pc = "call"

InitMerge ==
    /\ \E d \in MergeDocs : Idle(d, Policies0, {}, EmptyVault, 0)
    /\ call = [path |-> 1, ancestry |-> <<>>]
    /\ pc = "call"

\* one relay invocation: over every stacks directory, with or without
\* --stack-file; or over every payload, ceiling and agent list
InitRelay ==
    /\ \/ \E d \in DiscoverDocs, sf \in {0, 2, 4} :
             Idle(d, Policies0, {[Request0 EXCEPT !.stack_file = sf]},
                  EmptyVault, MaxClock - 1)
       \/ \E pl \in PayloadStrings, c \in Ceilings, ag \in AgentChoices :
             Idle([Docs0 EXCEPT ![2].body = Put(@, "agents", ag)],
                  IF c = NullV THEN Put(Policies0, "relay", Mp(EmptyDict))
                  ELSE PoliciesWith("relay", "max_payload_bytes", c),
                  {[Request0 EXCEPT !.payload = pl]},
                  EmptyVault, MaxClock - 1)
    /\ call = NoCall
    /\ pc = "idle"

SpecResolve == InitResolve /\ [][NextLoad]_vars /\ WF_vars(NextLoad)

SpecMerge == InitMerge /\ [][NextLoad]_vars

SpecRelay == InitRelay /\ [][NextRelay]_vars


----------------------------------------------------------------------------
(* Run stores for the logger and the digest *)

\* a stored report, as the relay prints it
Report0(payload) ==
    [timestamp |-> Num(1), stack_file |-> Num(1),
     persona |-> Sc("p"), role |-> Sc("r"), pipeline |-> PIPELINE,
     cfms_invariants |-> Mp(EmptyDict), meta |-> Mp(EmptyDict),
     payload |-> payload,
     outputs |-> Mp([executor |-> Sc("outputs/nova")]),
     policies_applied |-> Mp(EmptyDict)]

Evaluation0 ==
    [schema_version |-> Sc("1.0"), criteria |-> Li(<<Sc("c1"), Sc("c2")>>)]

Log0 == [timestamp |-> Num(1), persona |-> Sc("p")]

\* Payloads to redact: mappings over "token" and "keep" whose values are a
\* scalar, a mapping over "token", "7" and "keep", or a list of one such
\* mapping.
RedactInner == {Mp(f) : f \in Dicts({"token", "7", "keep"}, {Sc("s")})}

RedactMid == RedactInner \cup {Li(<<a>>) : a \in RedactInner} \cup {Sc("s")}

RedactPayloads == {Mp(f) : f \in Dicts({"token", "keep"}, RedactMid)}

\* logger.redact_keys: unset, null, or a list of strings and numbers
RedactKeyLists ==
    {NullV, Li(<<>>), Li(<<Sc("token")>>), Li(<<Num(7)>>),
     Li(<<Sc("token"), Num(7)>>), Li(<<Sc("keep")>>)}

\* runs/1 holds a report, runs/2 holds an evaluation but no report, runs/3/1
\* holds a report cut short, and nothing else exists
LoggerVault(payload) ==
    [d \in {<<>>, <<1>>, <<2>>, <<3>>, <<3, 1>>} |->
        CASE d = <<1>> -> Put(EmptyDict, "relay.json", Report0(payload))
          [] d = <<2>> -> Put(EmptyDict, "evaluation.json", Evaluation0)
          [] d = <<3, 1>> -> Put(EmptyDict, "relay.json", Corrupt)
          [] OTHER -> EmptyDict]

InitLogger ==
    /\ \E payload \in RedactPayloads, keys \in RedactKeyLists \cup {BadJson} :
          Idle(Docs0,
               IF keys = BadJson THEN Put(Policies0, "logger", Mp(EmptyDict))
               ELSE PoliciesWith("logger", "redact_keys", keys),
               {}, LoggerVault(payload), MaxClock - 2)
    /\ call = NoCall
    /\ pc = "idle"

SpecLogger == InitLogger /\ [][NextLogger]_vars

\* the files of a store, by which artifacts it has
StoreFiles(has_relay, has_evaluation, has_logger) ==
    [name \in (IF has_relay = "no" THEN {} ELSE {"relay.json"})
          \cup (IF has_evaluation = "no" THEN {} ELSE {"evaluation.json"})
          \cup (IF has_logger = "no" THEN {} ELSE {"logger.json"}) |->
        CASE name = "relay.json" ->
                 IF has_relay = "cut" THEN Corrupt ELSE Report0(Mp(EmptyDict))
          [] name = "evaluation.json" ->
                 IF has_evaluation = "cut" THEN Corrupt ELSE Evaluation0
          [] OTHER -> IF has_logger = "cut" THEN Corrupt ELSE Log0]

Presence == {"no", "yes", "cut"}

\* Layouts of runs/: each of 1, 2, 3 is missing, a run store, or a
\* directory of run stores named among 1 and 2; every store holds a report.
LayoutVaults ==
    {[d \in {<<>>} \cup {<<t>> : t \in {t \in 1..3 : kind[t] # "none"}}
          \cup {p \in (1..3) \X (1..2) :
                    kind[p[1]] = "nest" /\ p[2] \in sub[p[1]]} |->
         (IF (Len(d) = 1 /\ kind[d[1]] = "store") \/ Len(d) = 2
          THEN StoreFiles("yes", "no", "no") ELSE EmptyDict)] :
        kind \in [1..3 -> {"none", "store", "nest"}],
        sub \in [1..3 -> SUBSET (1..2)]}

\* Artifacts: store runs/1 and store runs/2/1 beside store runs/2/2, with
\* every artifact of the first two missing, whole or cut short.
ArtifactVaults ==
    {[d \in {<<>>, <<1>>, <<2>>, <<2, 1>>, <<2, 2>>} |->
        CASE d = <<1>> -> StoreFiles(r1, e1, l1)
          [] d = <<2, 1>> -> StoreFiles(r2, e2, l2)
          [] d = <<2, 2>> -> StoreFiles("yes", "yes", "yes")
          [] OTHER -> EmptyDict] :
        r1 \in {"yes", "cut"}, e1 \in Presence, l1 \in Presence,
        r2 \in Presence, e2 \in Presence, l2 \in Presence}

\* no runs/ at all
NoVault == [d \in {} |-> EmptyDict]

InitDigest ==
    /\ \E v \in LayoutVaults \cup ArtifactVaults \cup {NoVault},
          max_runs \in {NullV, Num(2)}, history \in BOOLEAN :
          Idle(Docs0,
               Put(Policies0, "digest",
                   Mp([max_runs |-> max_runs,
                       include_history |-> IF history THEN Num(1) ELSE Num(0)])),
               {}, v, MaxClock - 1)
    /\ call = NoCall
    /\ pc = "idle"

SpecDigest == InitDigest /\ [][NextDigest]_vars

\* The pipeline from an empty vault: relay, report storage, logger and
\* digest in any order, on runs/1 and runs/3/1.
Requests ==
    {[Request0 EXCEPT !.run_dir = d, !.payload = [widths |-> <<1, 1>>, json |-> Mp(o)]] :
        d \in {<<1>>, <<3, 1>>},
        o \in {EmptyDict, [token |-> Sc("s"), blockers |-> Li(<<Sc("b1")>>)]}}

Init ==
    /\ Idle(Docs0, Policies0, Requests, EmptyVault, 0)
    /\ call = NoCall
    /\ pc = "idle"

Spec == Init /\ [][Next]_vars

----------------------------------------------------------------------------
(* Relay invocations over a vault that may already hold a run store *)

\* runs/1 as an earlier run left it: report, log and the agent's output
PriorVault ==
    [d \in {<<>>, <<1>>, <<1, Outputs>>} |->
        CASE d = <<1>> -> Put(Put(EmptyDict, "relay.json", Report0(Mp(EmptyDict))),
                              "logger.json", Log0)
          [] d = <<1, Outputs>> -> Put(EmptyDict, "nova", [meta |-> Mp(EmptyDict)])
          [] OTHER -> EmptyDict]

\* the stack of Docs0, then one routed elsewhere, one whose include comes
\* back to it, and one whose include is missing
GateDocs ==
    {Docs0,
     [Docs0 EXCEPT ![1].body = Put(@, "routing", RoutingOf("q", "r"))],
     [Docs0 EXCEPT ![2].include = <<1>>],
     [Docs0 EXCEPT ![2].include = <<4>>]}

GatePayloads ==
    [widths : SeqsUpTo({1, 3}, MaxChars),
     json : {Mp(EmptyDict), Mp([blockers |-> Li(<<Sc("b1")>>)]),
             Li(<<>>), Sc("s"), BadJson}]

InitGates ==
    /\ \E d \in GateDocs, sf \in {0, 1, 4}, pl \in GatePayloads,
          c \in {NullV, Num(2), Num(4)}, ag \in AgentChoices,
          v \in {EmptyVault, PriorVault}, rd \in {<<1>>, <<3, 1>>} :
          Idle([d EXCEPT ![2].body = Put(@, "agents", ag)],
               IF c = NullV THEN Put(Policies0, "relay", Mp(EmptyDict))
               ELSE PoliciesWith("relay", "max_payload_bytes", c),
               {[Request0 EXCEPT !.stack_file = sf, !.payload = pl, !.run_dir = rd]},
               v, MaxClock - 1)
    /\ call = NoCall
    /\ pc = "idle"

SpecGates == InitGates /\ [][NextRelay]_vars
----------------------------------------------------------------------------
(* Include graph, stated without the resolver *)

Edge(a, b) == a \in DOMAIN docs /\ b \in Range(docs[a].include)

RECURSIVE ReachIn(_, _)
ReachIn(S, n) ==
    IF n = 0 THEN S
    ELSE ReachIn(S \cup {b \in Paths : \E a \in S : Edge(a, b)}, n - 1)

\* documents reachable from a by one or more includes
Below(a) == ReachIn({b \in Paths : Edge(a, b)}, Cardinality(Paths))

CyclicFrom(p) == \E a \in {p} \cup Below(p) : a \in Below(a)

NoneMissingFrom(p) == \A a \in {p} \cup Below(p) : a \in DOMAIN docs

Cyclic == CyclicFrom(1)

NoneMissing == NoneMissingFrom(1)

Halted == pc = "failed" \/ (pc = "return" /\ stack = <<>>)

IsCycleError == err.kind = "ValueError" /\ err.msg = "Circular include detected"

\* err.trace is a chain of includes from the root that closes on itself
CyclePath(q) ==
    /\ Len(q) >= 2
    /\ q[1] = 1
    /\ \A i \in 1..(Len(q) - 1) : Edge(q[i], q[i + 1])
    /\ \E i \in 1..(Len(q) - 1) : q[i] = q[Len(q)]
    /\ \A i, j \in 1..(Len(q) - 1) : i # j => q[i] # q[j]

C1_Safety ==
    /\ Len(stack) <= Cardinality(Paths)
    /\ \A i \in 1..Len(stack) :
          /\ Len(stack[i].ancestry) = i - 1
          /\ \A j \in 1..(i - 1) : stack[i].ancestry[j] = stack[j].path
                                   /\ stack[j].path # stack[i].path
    /\ IsCycleError => pc = "failed" /\ CyclePath(err.trace)
    /\ Halted /\ ~Cyclic => ~IsCycleError
    /\ Halted /\ Cyclic /\ NoneMissing => IsCycleError

\* C1: on every finite include graph resolution halts; it ends in the
\* circular-include error, carrying the cycle path, exactly when a document
\* on the active ancestry chain is reached again, and never on an acyclic
\* graph (diamonds included).
C1_ResolveTerminates == <>Halted /\ []C1_Safety

\* A includes B includes A: the error names the path 1 -> 2 -> 1
C1_Witness == pc = "failed" /\ IsCycleError /\ err.trace = <<1, 2, 1>>


----------------------------------------------------------------------------
(* Right-biased deep merge, stated on values *)

RECURSIVE RightBiased(_, _)
RightBiased(a, b) ==
    IF a.t = "map" /\ b.t = "map"
    THEN Mp([k \in DOMAIN a.m \cup DOMAIN b.m |->
                IF k \notin DOMAIN b.m THEN a.m[k]
                ELSE IF k \notin DOMAIN a.m THEN b.m[k]
                ELSE RightBiased(a.m[k], b.m[k])])
    ELSE b

\* the includes of p folded in declared order, then p's own body
RECURSIVE Resolved(_)
Resolved(p) ==
    LET inc == docs[p].include
        RECURSIVE Fold(_)
        Fold(i) == IF i = 0 THEN Mp(EmptyDict)
                   ELSE RightBiased(Fold(i - 1), Resolved(inc[i]))
    IN RightBiased(Fold(Len(inc)), Mp(docs[p].body))

Returned == pc = "return" /\ stack = <<>>

\* v holds everything w says: equal, or both mappings and key by key
RECURSIVE Carries(_, _)
Carries(v, w) ==
    IF w.t = "map"
    THEN /\ v.t = "map"
         /\ \A k \in DOMAIN w.m : k \in DOMAIN v.m /\ Carries(v.m[k], w.m[k])
    ELSE v = w

\* C2: on an acyclic include graph the resolved document is the right-biased
\* deep merge of the resolved includes, folded in declared order, merged
\* last with the body; every value of the body shows in the result, and
\* what the body leaves open comes from the last include defining it.
C2_ResolveIsFold ==
    Returned =>
        LET body == Mp(docs[1].body)
            inc == docs[1].include
        IN /\ Mp(ret) = Resolved(1)
           /\ Carries(Mp(ret), body)
           /\ \A i \in 1..Len(inc) :
                 \A k \in DOMAIN Resolved(inc[i]).m :
                    (/\ k \notin DOMAIN body.m
                     /\ \A j \in (i + 1)..Len(inc) : k \notin DOMAIN Resolved(inc[j]).m)
                    => Carries(ret[k], Resolved(inc[i]).m[k])

\* under "k" the body's "x" overrides the first include's, and the second
\* include's "y" overrides the first's
C2_Witness ==
    /\ Returned
    /\ docs[1].include = <<2, 3>>
    /\ docs[1].body = [k |-> Mp([x |-> Sc("v1")])]
    /\ docs[2].body = [k |-> Mp([x |-> Sc("v2"), y |-> Sc("v2")])]
    /\ docs[3].body = [k |-> Mp([y |-> Sc("v3")])]
    /\ ret = [k |-> Mp([x |-> Sc("v1"), y |-> Sc("v3")])]

----------------------------------------------------------------------------
(* The relay's payload gates *)

Ceiling == Get(Section(policies, "relay"), "max_payload_bytes")

PayloadBytes == SumSeq(args.payload.widths)

\* the invocation has been through the lines after stack discovery
PastLookup == found # NoFound /\ pc \in {"idle", "failed"}

TooLarge ==
    err.kind = "ValueError" /\ err.msg = "Payload exceeds relay policy limit"

\* C3: under every configured byte ceiling, a payload whose UTF-8 encoded
\* length exceeds the ceiling fails as too large, and json.loads is never
\* reached for it.
C3_SizeGate ==
    (PastLookup /\ Ceiling.t = "int" /\ PayloadBytes > Ceiling.n)
        => TooLarge /\ "json.loads" \notin Range(gates)

----------------------------------------------------------------------------
(* Stack discovery *)

ScanMode == args # NoArgs /\ args.stack_file = 0

Resolvable(p) == p \in DOMAIN docs /\ ~CyclicFrom(p) /\ NoneMissingFrom(p)

MatchesRequest(p) ==
    /\ Resolvable(p)
    /\ LET r == Resolved(p).m
       IN /\ "routing" \in DOMAIN r
          /\ r["routing"].t = "map"
          /\ Get(r["routing"].m, "persona") = Sc(args.persona)
          /\ Get(r["routing"].m, "role") = Sc(args.role)

\* the earliest match, every document before it loading without a match
FirstMatch(q) ==
    /\ MatchesRequest(q)
    /\ \A p \in DOMAIN docs : p < q => Resolvable(p) /\ ~MatchesRequest(p)

\* C4: without --stack-file the stack returned is the matching document of
\* least path, whatever the listing order: every document before it loads
\* and does not match, and that document is returned whenever there is
\* one; LookupError is raised only when every document has loaded without
\* matching.
C4_EarliestMatch ==
    ScanMode =>
        /\ found # NoFound =>
              /\ MatchesRequest(found.path)
              /\ Mp(found.stack) = Resolved(found.path)
              /\ \A q \in DOMAIN docs :
                    q < found.path => Resolvable(q) /\ ~MatchesRequest(q)
        /\ err.kind = "LookupError" =>
              \A q \in DOMAIN docs : Resolvable(q) /\ ~MatchesRequest(q)
        /\ (pc \in {"relay", "idle", "failed"} /\ \E q \in DOMAIN docs : FirstMatch(q))
              => \E q \in DOMAIN docs : FirstMatch(q) /\ found.path = q

\* files 2 and 3 both match, file 1 does not: file 2 is returned
C4_Witness ==
    /\ ScanMode
    /\ found # NoFound /\ found.path = 2
    /\ MatchesRequest(3)
    /\ Resolvable(1)

----------------------------------------------------------------------------
(* The advisory *)

RelayWrote == pc = "idle" /\ out.op = "relay"

\* the artifact the invocation wrote: the one file of its outputs directory
Artifact ==
    LET dir == vault[Append(args.run_dir, Outputs)]
    IN dir[CHOOSE name \in DOMAIN dir : TRUE]

Advice == Artifact.advice.m

Submitted == out.report.payload.m

\* blockers normalized: absent or null is empty, a list is its items, any
\* other value is a singleton
NoBlockers(payload) ==
    \/ "blockers" \notin DOMAIN payload
    \/ payload["blockers"].t = "null"
    \/ payload["blockers"].t = "list" /\ Len(payload["blockers"].l) = 0

DefaultRisk(payload) == IF NoBlockers(payload) THEN Sc("low") ELSE Sc("medium")

\* C6 as stated: risk_level is the payload's whenever the field is there.
C6_WheneverPresent ==
    RelayWrote =>
        Advice["risk_level"] =
            IF "risk_level" \in DOMAIN Submitted THEN Submitted["risk_level"]
            ELSE DefaultRisk(Submitted)

\* C6 amended: risk_level is the payload's whenever the payload has a
\* risk_level that is truthy (not null, not "", not 0); otherwise it is
\* "low" when the normalized blockers are empty and "medium" when not.
C6_WheneverTruthy ==
    RelayWrote =>
        Advice["risk_level"] =
            IF Truthy(Get(Submitted, "risk_level")) THEN Submitted["risk_level"]
            ELSE DefaultRisk(Submitted)

\* risk_level "" and the scalar blocker "": not the payload's "", but medium
C6_Witness ==
    /\ RelayWrote
    /\ Submitted = [risk_level |-> Sc(""), blockers |-> Sc("")]
    /\ Advice["risk_level"] = Sc("medium")

----------------------------------------------------------------------------
(* Redaction, as the logger applies it to the stored payload *)

LoggerWrote(d) == out.op = "logger" /\ out.logger_file = d

Submission == vault[<<1>>]["relay.json"].payload

Logged == vault[<<1>>]["logger.json"].payload

ConfiguredKeys ==
    LET section == Section(policies, "logger")
    IN IF "redact_keys" \in DOMAIN section THEN section["redact_keys"] ELSE NullV

\* the sensitive set: the configured keys, as text
SensitiveKeys ==
    IF ConfiguredKeys.t = "list"
    THEN {Str(ConfiguredKeys.l[i]) : i \in 1..Len(ConfiguredKeys.l)}
    ELSE {}

\* r is o with the values of sensitive keys masked at every depth
RECURSIVE MaskedFrom(_, _)
MaskedFrom(r, o) ==
    CASE o.t = "map" ->
            /\ r.t = "map"
            /\ DOMAIN r.m = DOMAIN o.m
            /\ \A key \in DOMAIN o.m :
                  IF key \in SensitiveKeys THEN r.m[key] = Marker
                  ELSE MaskedFrom(r.m[key], o.m[key])
      [] o.t = "list" ->
            /\ r.t = "list"
            /\ Len(r.l) = Len(o.l)
            /\ \A i \in 1..Len(o.l) : MaskedFrom(r.l[i], o.l[i])
      [] OTHER -> r = o

\* C5: redact returns a value of the same shape in which every key of the
\* sensitive set, at any depth inside mappings and sequences, maps to
\* "***REDACTED***" and everything else is unchanged; redacting the result
\* again with the same keys returns it unchanged.
C5_RedactMasks ==
    LoggerWrote(<<1>>) =>
        /\ MaskedFrom(Logged, Submission)
        /\ redact(Logged, ConfiguredKeys) = Logged

\* "token" inside a mapping inside a list is masked, "keep" beside it is not
C5_Witness ==
    /\ LoggerWrote(<<1>>)
    /\ SensitiveKeys = {"token"}
    /\ Submission =
          Mp([keep |-> Li(<<Mp([token |-> Sc("s"), keep |-> Sc("s")])>>)])
    /\ Logged =
          Mp([keep |-> Li(<<Mp([token |-> Marker, keep |-> Sc("s")])>>)])

----------------------------------------------------------------------------
(* The logger without a report *)

LoggerStep(d) == \E record_env \in BOOLEAN, git_ok \in BOOLEAN :
                    Logger(d, record_env, git_ok)

\* C9: a logger invoked on a run directory without relay.json fails in that
\* same step with the missing-file error, and creates or changes no file.
C9_AbsentReportFails ==
    [][\A d \in RunDirs :
          (LoggerStep(d) /\ ~HasFile(vault, d, "relay.json"))
              => /\ err'.kind = "FileNotFoundError"
                 /\ err'.trace = d
                 /\ out' = NoOut
                 /\ vault' = vault]_vars

\* the logger has failed on runs/2, which holds an evaluation and no report
C9_Witness ==
    /\ err.kind = "FileNotFoundError"
    /\ err.trace = <<2>>
    /\ DOMAIN vault[<<2>>] = {"evaluation.json"}
    /\ out = NoOut

----------------------------------------------------------------------------
(* The digest *)

DigestPrinted == out.op = "digest"

Listed == [i \in 1..Len(out.digest.runs) |-> out.digest.runs[i].run_dir]

\* a run directory's name under runs/ sorts after another's, name by name
NameAfter(a, b) ==
    \E n \in 0..Min(Len(a), Len(b)) :
        /\ SubSeq(a, 1, n) = SubSeq(b, 1, n)
        /\ IF n = Len(b) THEN Len(a) > n
           ELSE n < Len(a) /\ a[n + 1] > b[n + 1]

\* C7: over N run stores, one or two levels under runs/, and a limit k >= 0
\* the digest holds min(k, N) records: the k stores greatest by directory
\* name, greatest first.
C7_MostRecentFirst ==
    (DigestPrinted /\ out.limit.t = "int" /\ out.limit.n >= 0) =>
        /\ Len(Listed) = Min(out.limit.n, Cardinality(ScanRuns(vault)))
        /\ Range(Listed) \subseteq ScanRuns(vault)
        /\ \A i, j \in 1..Len(Listed) : i < j => NameAfter(Listed[i], Listed[j])
        /\ \A d \in ScanRuns(vault) \ Range(Listed) :
              \A i \in 1..Len(Listed) : NameAfter(Listed[i], d)

\* five stores, limit 2: runs/3/2 then runs/3/1, before runs/2/1, runs/2/2
\* and runs/1
C7_Witness ==
    /\ DigestPrinted
    /\ out.limit = Num(2)
    /\ ScanRuns(vault) = {<<1>>, <<2, 1>>, <<2, 2>>, <<3, 1>>, <<3, 2>>}
    /\ Listed = <<<<3, 2>>, <<3, 1>>>>

Has(d, name) == d \in DOMAIN vault /\ name \in DOMAIN vault[d]

\* the record of store d, from d's own artifacts and the defaults
Expected(d) ==
    LET relay == vault[d]["relay.json"]
        evaluation == vault[d]["evaluation.json"]
    IN [run_dir |-> d,
        timestamp |-> IF Has(d, "relay.json") THEN relay.timestamp ELSE NullV,
        persona |-> IF Has(d, "relay.json") THEN relay.persona ELSE NullV,
        role |-> IF Has(d, "relay.json") THEN relay.role ELSE NullV,
        pipeline |-> IF Has(d, "relay.json") THEN relay.pipeline ELSE NullV,
        outputs |-> IF Has(d, "relay.json") THEN relay.outputs ELSE Mp(EmptyDict),
        evaluation_schema |->
            IF Has(d, "evaluation.json") THEN evaluation.schema_version ELSE NullV,
        evaluation_criteria |->
            IF Has(d, "evaluation.json") THEN Len(evaluation.criteria.l) ELSE 0,
        logger_present |-> Has(d, "logger.json")]

CutShort(d) == \E name \in DOMAIN vault[d] : vault[d][name] = Corrupt

\* C8: whichever of report, log and evaluation a candidate has, the digest
\* completes and holds one record per candidate; an absent artifact's fields
\* take their defaults, and each record is that of its own store alone.
C8_AbsentArtifactsDefault ==
    /\ DigestPrinted =>
          /\ \A i \in 1..Len(Listed) : out.digest.runs[i] = Expected(Listed[i])
          /\ out.limit.t = "null" =>
                /\ Range(Listed) = ScanRuns(vault)
                /\ Len(Listed) = Cardinality(ScanRuns(vault))
    /\ err # NoErr => \E d \in ScanRuns(vault) : CutShort(d)

\* runs/2/1 with no artifact at all beside runs/1 with all three
C8_Witness ==
    /\ DigestPrinted
    /\ out.limit.t = "null"
    /\ Listed = <<<<2, 2>>, <<2, 1>>, <<1>>>>
    /\ DOMAIN vault[<<2, 1>>] = {}
    /\ DOMAIN vault[<<1>>] = {"relay.json", "evaluation.json", "logger.json"}
    /\ ~out.digest.runs[2].logger_present
    /\ out.digest.runs[2].evaluation_criteria = 0
    /\ out.digest.runs[3].logger_present

----------------------------------------------------------------------------
(* Run stores once logged *)

\* the directories of store d with their files
StoreOf(v, d) ==
    [x \in {x \in DOMAIN v : Len(x) >= Len(d) /\ SubSeq(x, 1, Len(d)) = d} |-> v[x]]

\* C10: once the logger has completed on a run store, no relay, logger or
\* digest step changes or deletes any artifact of that store.
C10_LoggedStoreImmutable ==
    [][\A d \in RunDirs :
          HasFile(vault, d, "logger.json") => StoreOf(vault', d) = StoreOf(vault, d)]_vars

----------------------------------------------------------------------------
(* The relay's gates and the run directory *)

AllGates ==
    <<"encode", "json.loads", "isinstance", "executor", "mkdir", "write", "report">>

\* the one file a completed relay writes
OutputFile(d, name) ==
    /\ d = Append(args.run_dir, Outputs)
    /\ name \in {"nova", "agent"}

\* C11: the run directory is created and the output artifact written only
\* in the step that has passed stack lookup, the size check, the shape check
\* and the executor (zero-agent check included); a relay that fails at any
\* gate leaves every directory and every artifact as it was, and a relay
\* that completes changes no artifact but its own output.
C11_GatesBeforeWrite ==
    [][/\ pc' = "failed" => vault' = vault
       /\ vault' # vault =>
             /\ pc = "relay" /\ pc' = "idle"
             /\ found # NoFound
             /\ err' = NoErr
             /\ gates' = AllGates
             /\ Append(args.run_dir, Outputs) \in DOMAIN vault'
             /\ \A d \in DOMAIN vault : d \in DOMAIN vault'
             /\ \A d \in DOMAIN vault : \A name \in DOMAIN vault[d] :
                   /\ name \in DOMAIN vault'[d]
                   /\ ~OutputFile(d, name) => vault'[d][name] = vault[d][name]]_vars

\* the stack declares no agent: the relay for runs/3/1 has failed at the
\* executor, runs/3 does not exist and runs/1 is as it was
C11_Witness ==
    /\ pc = "failed"
    /\ gates = <<"encode", "json.loads", "isinstance", "executor">>
    /\ err.msg = "Stack must declare at least one agent."
    /\ args.run_dir = <<3, 1>>
    /\ vault = PriorVault
============================================================================
